---- MODULE Spec2Model ----
(***************************************************************************)
(* A model of the Postgres event store (NostrPostgres): the events and     *)
(* event_tags tables, the filter compiler (filter_to_sql_params), the way  *)
(* Postgres runs the statements the code sends, and the save / check_id /  *)
(* event_by_id / count / query / delete / wipe handlers.                   *)
(***************************************************************************)
EXTENDS Integers, Sequences, FiniteSets, Bags, TLC

\* ------------------------------------------------------------------ bounds
\* Event ids are 1..MaxId.
MaxId == 3
\* Explicit limits of the filters the callers pass are 0..MaxLimit.
MaxLimit == 2
\* Callers besides Procs that use the pool at the same time.
MaxOthers == 17

\* ------------------------------------------------------- program constants
\* query: with_limit(filter, 10000)
DefaultQueryLimit == 10000
\* delete: with_limit(filter, 999)
DefaultDeleteLimit == 999
\* postgres_connection_pool: max_size(16)
PoolMaxSize == 16

\* ------------------------------------------------------------------ options
\* Option<T>: None is the empty sequence, Some(x) the one-element sequence.
None == <<>>
Some(x) == <<x>>
IsSome(o) == Len(o) = 1
Unwrap(o) == o[1]

\* ------------------------------------------------------------------ events
Ids == 1..MaxId
Procs == {1, 2}

\* A tag of an event: its kind (name) and its content, if it has one.
Tag(k, c) == [kind |-> k, content |-> c]

\* The events callers hand to save_event. Variant 0 of id i is the event with
\* that id; variant 1 is another event carrying the same id (save_event does
\* not verify events: "assumes that Event was already verified").
EventOf(i, v) ==
  IF v = 0
  THEN [id |-> i,
        pubkey |-> IF i % 2 = 1 THEN "A" ELSE "B",
        created_at |-> 100 * i,
        kind |-> IF i % 3 = 2 THEN 2 ELSE 1,
        tags |-> IF i % 3 = 1 THEN <<>>
                 ELSE IF i % 3 = 2 THEN <<Tag("e", Some("x")), Tag("p", Some("y"))>>
                 ELSE <<Tag("e", Some("x")), Tag("t", None)>>]
  ELSE [id |-> i,
        pubkey |-> "B",
        created_at |-> 100 * MaxId,
        kind |-> 1,
        tags |-> <<Tag("t", Some("z"))>>]

\* Only id 1 is used with two different events.
Events == {EventOf(i, 0) : i \in Ids} \cup {EventOf(1, 1)}

\* ------------------------------------------------------------------- codec
\* Event::encode: the payload is the flat buffer of the event's fields.
Encode(e) == <<e.id, e.pubkey, e.created_at, e.kind, e.tags>>

\* Event::decode: fails on bytes that are not a whole buffer.
Decode(b) ==
  IF Len(b) = 5
  THEN [ok |-> TRUE,
        event |-> [id |-> b[1], pubkey |-> b[2], created_at |-> b[3],
                   kind |-> b[4], tags |-> b[5]]]
  ELSE [ok |-> FALSE]

\* -------------------------------------------------------------- model.rs
\* extract_tags: one EventTagDb per tag that has content.
RECURSIVE extract_tags_from(_, _)
extract_tags_from(id, ts) ==
  IF ts = <<>> THEN <<>>
  ELSE LET t == Head(ts)
           rest == extract_tags_from(id, Tail(ts))
       IN IF IsSome(t.content)
          THEN <<[tag |-> t.kind, tag_value |-> Unwrap(t.content), event_id |-> id]>> \o rest
          ELSE rest

extract_tags(event) == extract_tags_from(event.id, event.tags)

\* The deleted flag TryFrom<&Event> writes with a mutated mapper.
TryFromEvent_Deleted(event) ==
  [event |-> [id |-> event.id, pubkey |-> event.pubkey,
              created_at |-> event.created_at, kind |-> event.kind,
              payload |-> Encode(event), deleted |-> TRUE],
   tags |-> extract_tags(event)]

\* TryFrom<&Event> for EventDataDb. The "as i64" casts of created_at (u64) and
\* kind (u16) keep every value the model uses (all below 2^31).
TryFromEvent(event) ==
  [event |-> [id |-> event.id, pubkey |-> event.pubkey,
              created_at |-> event.created_at, kind |-> event.kind,
              payload |-> Encode(event), deleted |-> FALSE],
   tags |-> extract_tags(event)]

\* ----------------------------------------------------------------- filters
\* nostr::Filter: every field optional; generic_tags is a map from tag name to
\* a set of values, iterated in key order (a sequence of [tag, values]).
MkFilter(ids, authors, kinds, since, until, generic_tags, limit) ==
  [ids |-> ids, authors |-> authors, kinds |-> kinds, since |-> since,
   until |-> until, generic_tags |-> generic_tags, limit |-> limit]

EmptyFilter == MkFilter(None, None, None, None, None, <<>>, None)

\* with_limit always installing the default (a mutated with_limit).
with_limit_Override(filter, default_limit) ==
  [filter EXCEPT !.limit = Some(default_limit)]

\* with_limit: sets the given default limit if the filter has none.
with_limit(filter, default_limit) ==
  IF ~IsSome(filter.limit)
  THEN [filter EXCEPT !.limit = Some(default_limit)]
  ELSE filter

\* has_filters without its last line (a mutated has_filters).
has_filters_NoLimit(filter) ==
  \/ IsSome(filter.ids)
  \/ IsSome(filter.authors)
  \/ IsSome(filter.kinds)
  \/ IsSome(filter.since)
  \/ IsSome(filter.until)
  \/ filter.generic_tags # <<>>

\* has_filters
has_filters(filter) ==
  \/ IsSome(filter.ids)
  \/ IsSome(filter.authors)
  \/ IsSome(filter.kinds)
  \/ IsSome(filter.since)
  \/ IsSome(filter.until)
  \/ filter.generic_tags # <<>>
  \/ IsSome(filter.limit)

\* ------------------------------------------------------------ statements
\* The text of a SELECT the code sends, by its parts: the select list (all
\* three base queries are SELECT DISTINCT <list> FROM events LEFT JOIN
\* event_tags ON events.id = event_tags.event_id), the AND-ed conditions of
\* WHERE, the ORDER BY expressions and the LIMIT placeholder. A condition is
\* [col, op, ph]: ph is the number n of its placeholder $n (0: none).
Cond(col, op, ph) == [col |-> col, op |-> op, ph |-> ph]

BaseQuery(select) ==
  [select |-> select,
   where |-> <<Cond("events.deleted", "= FALSE", 0)>>,
   order_by |-> <<>>,
   limit |-> None]

\* count: "SELECT DISTINCT count(*) FROM ... WHERE events.deleted = FALSE"
CountBaseQuery == BaseQuery("count(*)")
\* A query base that forgets the soft-delete condition (a mutated base query).
QueryBaseQuery_NoDeleted == [BaseQuery("events.*") EXCEPT !.where = <<>>]
\* query: "SELECT DISTINCT events.* FROM ... WHERE events.deleted = FALSE"
QueryBaseQuery == BaseQuery("events.*")
\* delete: "SELECT DISTINCT events.id FROM ... WHERE events.deleted = FALSE"
DeleteBaseQuery == BaseQuery("events.id")

\* A clause pushed without "idx += 1" (a mutated compiler).
PushCond_NoIncrement(s, col, op, value) ==
  [sql |-> [s.sql EXCEPT !.where = Append(@, Cond(col, op, s.idx))],
   params |-> Append(s.params, <<value>>),
   idx |-> s.idx]

\* sql.push_str(format!(" AND <col> <op> ${idx}")); params.push(value); idx += 1
PushCond(s, col, op, value) ==
  [sql |-> [s.sql EXCEPT !.where = Append(@, Cond(col, op, s.idx))],
   params |-> Append(s.params, <<value>>),
   idx |-> s.idx + 1]

\* The generic_tags loop: two conditions and two parameters per tag.
RECURSIVE PushTags(_, _)
PushTags(s, gts) ==
  IF gts = <<>> THEN s
  ELSE LET g == Head(gts)
           s1 == PushCond(s, "event_tags.tag", "=", g.tag)
           s2 == PushCond(s1, "event_tags.tag_value", "= ANY", g.values)
       IN PushTags(s2, Tail(gts))

\* The since condition with a strict comparison (a mutated compiler).
SinceOp_Strict == ">"
\* " AND events.created_at >= ${}"
SinceOp == ">="

\* The order-by with the direction dropped (a mutated compiler).
OrderByClause_Asc == "events.created_at ASC"
\* " ORDER BY events.created_at DESC"
OrderByClause == "events.created_at DESC"

\* filter_to_sql_params: the statement and its parameters. Each parameter is
\* boxed (a one-element sequence) so that the list holds values of any type.
filter_to_sql_params(base_query, filter) ==
  IF ~has_filters(filter)
  THEN [sql |-> base_query, params |-> <<>>]
  ELSE
    LET s0 == [sql |-> base_query, params |-> <<>>, idx |-> 1]
        s1 == IF IsSome(filter.ids)
              THEN PushCond(s0, "events.id", "= ANY", Unwrap(filter.ids)) ELSE s0
        s2 == IF IsSome(filter.authors)
              THEN PushCond(s1, "events.pubkey", "= ANY", Unwrap(filter.authors)) ELSE s1
        s3 == IF IsSome(filter.kinds)
              THEN PushCond(s2, "events.kind", "= ANY", Unwrap(filter.kinds)) ELSE s2
        s4 == IF IsSome(filter.since)
              THEN PushCond(s3, "events.created_at", SinceOp, Unwrap(filter.since)) ELSE s3
        s5 == IF IsSome(filter.until)
              THEN PushCond(s4, "events.created_at", "<=", Unwrap(filter.until)) ELSE s4
        s6 == PushTags(s5, filter.generic_tags)
        s7 == [s6 EXCEPT !.sql.order_by = Append(@, OrderByClause)]
        s8 == IF IsSome(filter.limit)
              THEN [sql |-> [s7.sql EXCEPT !.limit = Some(s7.idx)],
                    params |-> Append(s7.params, <<Unwrap(filter.limit)>>),
                    idx |-> s7.idx]
              ELSE s7
    IN [sql |-> s8.sql, params |-> s8.params]

\* ---------------------------------------------------------------- the store
\* events: the events table, a function from the stored ids (PRIMARY KEY) to
\* rows [id, pubkey, created_at, kind, payload, deleted]. tags: the event_tags
\* table, a bag of rows [tag, tag_value, event_id] (no key: rows may repeat).
EmptyDb == [events |-> <<>>, tags |-> EmptyBag]

HasRow(dbv, id) == id \in DOMAIN dbv.events

TagRowsOf(dbv, id) == {t \in BagToSet(dbv.tags) : t.event_id = id}

\* The rows of events LEFT JOIN event_tags ON events.id = event_tags.event_id:
\* an event without tag rows joins once, with NULL (None) tag columns.
JoinRows(dbv) ==
  UNION {IF TagRowsOf(dbv, id) = {}
         THEN {[e |-> dbv.events[id], t |-> None]}
         ELSE {[e |-> dbv.events[id], t |-> Some(t)] : t \in TagRowsOf(dbv, id)}
         : id \in DOMAIN dbv.events}

\* How many times a join row occurs: once per copy of its tag row.
JoinCopies(dbv, j) == IF IsSome(j.t) THEN CopiesIn(Unwrap(j.t), dbv.tags) ELSE 1

\* One WHERE condition on a join row; a comparison with NULL is not true.
CondHolds(c, j, params) ==
  LET v == IF c.ph = 0 THEN None ELSE params[c.ph] IN
  CASE c.col = "events.deleted" -> j.e.deleted = FALSE
    [] c.col = "events.id" -> j.e.id \in Unwrap(v)
    [] c.col = "events.pubkey" -> j.e.pubkey \in Unwrap(v)
    [] c.col = "events.kind" -> j.e.kind \in Unwrap(v)
    [] c.col = "events.created_at" ->
         (CASE c.op = ">=" -> j.e.created_at >= Unwrap(v)
            [] c.op = ">" -> j.e.created_at > Unwrap(v)
            [] c.op = "<=" -> j.e.created_at <= Unwrap(v))
    [] c.col = "event_tags.tag" -> IsSome(j.t) /\ Unwrap(j.t).tag = Unwrap(v)
    [] c.col = "event_tags.tag_value" -> IsSome(j.t) /\ Unwrap(j.t).tag_value \in Unwrap(v)

WhereHolds(sql, j, params) ==
  \A k \in 1..Len(sql.where) : CondHolds(sql.where[k], j, params)

MatchedJoinRows(sql, params, dbv) ==
  {j \in JoinRows(dbv) : WhereHolds(sql, j, params)}

\* The placeholders of a statement are $1..$n with n parameters supplied.
PlaceholdersBound(sql, params) ==
  LET phs == {sql.where[k].ph : k \in 1..Len(sql.where)} \ {0}
      all == phs \cup (IF IsSome(sql.limit) THEN {Unwrap(sql.limit)} ELSE {})
  IN all = 1..Len(params)

\* The columns a select list holds.
SelectListHas(select, order) ==
  CASE select = "events.*" -> TRUE
    [] select = "events.id" -> FALSE
    [] select = "count(*)" -> FALSE

\* Postgres' analysis of a SELECT DISTINCT statement. It rejects an ORDER BY
\* expression that is not in the select list (42P10: "for SELECT DISTINCT,
\* ORDER BY expressions must appear in select list"), and for the aggregate
\* count(*) one that is neither grouped nor aggregated (42803).
PgAccepts(sql, params) ==
  /\ PlaceholdersBound(sql, params)
  /\ \A k \in 1..Len(sql.order_by) : SelectListHas(sql.select, sql.order_by[k])

RECURSIVE SumCopies(_, _)
SumCopies(dbv, js) ==
  IF js = {} THEN 0
  ELSE LET j == CHOOSE x \in js : TRUE
       IN JoinCopies(dbv, j) + SumCopies(dbv, js \ {j})

\* count(*) over the joined rows that pass WHERE (DISTINCT then applies to
\* the single result row).
PgCount(sql, params, dbv) == SumCopies(dbv, MatchedJoinRows(sql, params, dbv))

\* All orders of a set of rows.
RECURSIVE Perms(_)
Perms(S) ==
  IF S = {} THEN {<<>>}
  ELSE UNION {{<<x>> \o s : s \in Perms(S \ {x})} : x \in S}

\* s is in the order the ORDER BY asks for (any order without one; rows with
\* equal keys in any order).
InOrder(order_by, s) ==
  \A k \in 1..Len(order_by) :
    \A a, b \in 1..Len(s) :
      a < b =>
        CASE order_by[k] = "events.created_at DESC" -> s[a].created_at >= s[b].created_at
          [] order_by[k] = "events.created_at ASC" -> s[a].created_at <= s[b].created_at

Min(a, b) == IF a < b THEN a ELSE b

\* The results Postgres may give for SELECT DISTINCT events.* (or events.id):
\* the distinct event rows of the matched join rows, ordered, cut at LIMIT.
PgSelect(sql, params, dbv) ==
  LET rows == {j.e : j \in MatchedJoinRows(sql, params, dbv)}
      n == IF IsSome(sql.limit)
           THEN Min(Unwrap(params[Unwrap(sql.limit)]), Cardinality(rows))
           ELSE Cardinality(rows)
  IN {SubSeq(s, 1, n) : s \in {t \in Perms(rows) : InOrder(sql.order_by, t)}}

\* ------------------------------------------------------------ transactions
\* A save's transaction: the event row and tag rows inserted so far (visible
\* to no other connection before COMMIT) and the tag rows still to insert
\* (the rest of "for tag in event_data.tags").
NoTx == [event |-> None, tags |-> <<>>, todo |-> <<>>]

\* INSERT INTO events fails on an id that is already stored (BYTEA PRIMARY KEY).
UniqueViolation_Upsert(dbv, row) == FALSE
UniqueViolation(dbv, row) == HasRow(dbv, row.id)

RECURSIVE SeqToBag(_)
SeqToBag(s) == IF s = <<>> THEN EmptyBag ELSE SetToBag({Head(s)}) (+) SeqToBag(Tail(s))

\* The inserts run on the pooled connection outside the transaction, so each
\* one is visible as soon as it is executed (a mutated save).
TxExecute_AutoCommit(dbv, txv, table, row) ==
  IF table = "events"
  THEN [db |-> [dbv EXCEPT !.events = (row.id :> row) @@ @], tx |-> txv]
  ELSE [db |-> [dbv EXCEPT !.tags = @ (+) SetToBag({row})], tx |-> txv]

\* tx.execute(INSERT ...): the row is written inside the transaction.
TxExecute(dbv, txv, table, row) ==
  IF table = "events"
  THEN [db |-> dbv, tx |-> [txv EXCEPT !.event = Some(row)]]
  ELSE [db |-> dbv, tx |-> [txv EXCEPT !.tags = Append(@, row)]]

\* A commit of a save that had cleared event_tags before inserting its own
\* tag rows (a mutated save).
TxCommit_ReplaceTags(dbv, txv) ==
  [events |-> IF IsSome(txv.event)
              THEN (Unwrap(txv.event).id :> Unwrap(txv.event)) @@ dbv.events
              ELSE dbv.events,
   tags |-> SeqToBag(txv.tags)]

\* tx.commit(): every row of the transaction becomes visible at once.
TxCommit(dbv, txv) ==
  [events |-> IF IsSome(txv.event)
              THEN (Unwrap(txv.event).id :> Unwrap(txv.event)) @@ dbv.events
              ELSE dbv.events,
   tags |-> dbv.tags (+) SeqToBag(txv.tags)]

\* ------------------------------------------------------------ the handlers
Ok(v) == [ok |-> TRUE, v |-> v]
Err(e) == [ok |-> FALSE, err |-> e]

\* DatabaseError::backend(e) keeps its cause e: the pool or the connection
\* failed, Postgres rejected the statement, a key was already stored, or a
\* payload did not decode.
ConnectionFailed == Err("backend: connection failed")
StatementRejected == Err("backend: statement rejected")
UniqueViolated == Err("backend: unique violation")
DecodeFailed == Err("backend: decode failed")
NotSupported == Err("not supported")

\* NostrPostgres::event_by_id: SELECT ... FROM events WHERE id = $1
RowById(dbv, id) == IF HasRow(dbv, id) THEN Some(dbv.events[id]) ELSE None

\* check_id
CheckIdStatus(dbv, id) ==
  LET r == RowById(dbv, id) IN
  IF IsSome(r) /\ Unwrap(r).deleted THEN "Deleted"
  ELSE IF IsSome(r) THEN "Saved"
  ELSE "NotExistent"

\* NostrDatabase::event_by_id: the decoded event of a row that is not deleted.
GetEvent(dbv, id) ==
  LET r == RowById(dbv, id) IN
  IF IsSome(r) /\ ~Unwrap(r).deleted
  THEN LET d == Decode(Unwrap(r).payload)
       IN IF d.ok THEN Ok(Some(d.event)) ELSE DecodeFailed
  ELSE Ok(None)

\* The statements the handlers compile.
CountStatement(filter) == filter_to_sql_params(CountBaseQuery, filter)
QueryStatement(filter) ==
  filter_to_sql_params(QueryBaseQuery, with_limit(filter, DefaultQueryLimit))
DeleteStatement(filter) ==
  filter_to_sql_params(DeleteBaseQuery, with_limit(filter, DefaultDeleteLimit))

\* count, once it holds a connection: the scalar of query_one, 0 on any error.
CountResult(dbv, filter) ==
  LET c == CountStatement(filter) IN
  IF PgAccepts(c.sql, c.params) THEN PgCount(c.sql, c.params, dbv) ELSE 0

\* Event's Ord: created_at descending, then id.
EventBefore(a, b) ==
  IF a.created_at # b.created_at THEN a.created_at > b.created_at ELSE a.id < b.id

\* Events::insert: the set is kept in Event's order and holds at most the
\* filter's limit (Events::new(&filter)), dropping from the end.
EventsInsert(evs, e, cap) ==
  IF \E k \in 1..Len(evs) : evs[k] = e THEN evs
  ELSE LET n == Cardinality({k \in 1..Len(evs) : EventBefore(evs[k], e)})
           ins == SubSeq(evs, 1, n) \o <<e>> \o SubSeq(evs, n + 1, Len(evs))
       IN SubSeq(ins, 1, Min(cap, Len(ins)))

\* The decode loop of query: rows that fail to decode are skipped.
RECURSIVE DecodeRows(_, _, _)
DecodeRows(rows, evs, cap) ==
  IF rows = <<>> THEN evs
  ELSE LET d == Decode(Head(rows).payload)
       IN DecodeRows(Tail(rows), IF d.ok THEN EventsInsert(evs, d.event, cap) ELSE evs, cap)

\* A query whose decode loop returns the decode error with "?" instead of
\* skipping the row (a mutated query).
QueryResults_DecodeOrFail(dbv, filter0) ==
  LET filter == with_limit(filter0, DefaultQueryLimit)
      c == QueryStatement(filter0)
  IN IF PgAccepts(c.sql, c.params)
     THEN {IF \E k \in 1..Len(rows) : ~Decode(rows[k].payload).ok
           THEN DecodeFailed
           ELSE Ok(DecodeRows(rows, <<>>, Unwrap(filter.limit))) : rows \in PgSelect(c.sql, c.params, dbv)}
     ELSE {StatementRejected}

\* query, once it holds a connection: every result the statement may give.
QueryResults(dbv, filter0) ==
  LET filter == with_limit(filter0, DefaultQueryLimit)
      c == QueryStatement(filter0)
  IN IF PgAccepts(c.sql, c.params)
     THEN {Ok(DecodeRows(rows, <<>>, Unwrap(filter.limit))) : rows \in PgSelect(c.sql, c.params, dbv)}
     ELSE {StatementRejected}

\* delete's first statement: the ids it selects, or the backend error.
DeleteSelect(dbv, filter0) ==
  LET c == DeleteStatement(filter0)
  IN IF PgAccepts(c.sql, c.params)
     THEN {Ok([k \in 1..Len(rows) |-> rows[k].id]) : rows \in PgSelect(c.sql, c.params, dbv)}
     ELSE {StatementRejected}

\* delete's second statement. Its text is the literal
\* "UPDATE events SET deleted = TRUE WHERE events.id = ANY (${})" (no format!
\* fills the braces) and its parameters are the selected ids, one each.
UpdateQuery == [col |-> "events.id", op |-> "= ANY", placeholder |-> "${}"]

\* Postgres accepts the UPDATE when its placeholder is $1 and one parameter
\* (the array of ids) is supplied.
PgAcceptsUpdate(u, params) == u.placeholder = "$1" /\ Len(params) = 1

\* UPDATE events SET deleted = TRUE for the ids given.
PgUpdateDeleted(dbv, ids) ==
  LET old == dbv.events IN
  [dbv EXCEPT !.events =
     [id \in DOMAIN old |->
        IF id \in ids THEN [old[id] EXCEPT !.deleted = TRUE] ELSE old[id]]]

\* ------------------------------------------------------------ the schema
\* The statements of run_migrations in their order, each CREATE ... IF NOT
\* EXISTS: the table or index it creates and the table that must exist for
\* it (event_tags REFERENCES events; an index is ON its table).
Migrations ==
  <<[name |-> "events", needs |-> None],
    [name |-> "event_tags", needs |-> Some("events")],
    [name |-> "event_pubkey", needs |-> Some("events")],
    [name |-> "event_date", needs |-> Some("events")],
    [name |-> "event_kind", needs |-> Some("events")],
    [name |-> "event_deleted", needs |-> Some("events")],
    [name |-> "event_tags_tag", needs |-> Some("event_tags")]>>

FullSchema == {Migrations[k].name : k \in 1..Len(Migrations)}

\* A new table holds no rows; an index holds none of its own.
CreatedEmpty(dbv, name) ==
  CASE name = "events" -> [dbv EXCEPT !.events = <<>>]
    [] name = "event_tags" -> [dbv EXCEPT !.tags = EmptyBag]
    [] OTHER -> dbv

\* CREATE without IF NOT EXISTS: an existing name is an error (a mutated
\* migration).
PgCreate_NoGuard(schemav, dbv, m) ==
  IF m.name \in schemav \/ (IsSome(m.needs) /\ Unwrap(m.needs) \notin schemav)
  THEN [ok |-> FALSE, schema |-> schemav, db |-> dbv]
  ELSE [ok |-> TRUE, schema |-> schemav \cup {m.name}, db |-> CreatedEmpty(dbv, m.name)]

\* CREATE TABLE / INDEX IF NOT EXISTS as Postgres runs it: an existing name
\* is skipped with a notice and nothing changes; else the object is created,
\* which fails if the table it refers to does not exist.
PgCreateIfNotExists(schemav, dbv, m) ==
  IF m.name \in schemav
  THEN [ok |-> TRUE, schema |-> schemav, db |-> dbv]
  ELSE IF IsSome(m.needs) /\ Unwrap(m.needs) \notin schemav
  THEN [ok |-> FALSE, schema |-> schemav, db |-> dbv]
  ELSE [ok |-> TRUE, schema |-> schemav \cup {m.name}, db |-> CreatedEmpty(dbv, m.name)]

\* -------------------------------------------------------------- the pool
\* The pool of postgres_connection_pool: busy is the number of connections
\* held by callers other than Procs, queue the callers waiting in pool.get,
\* first come first served (a caller of Procs, or 0 for another caller).
IdlePool == [busy |-> 0, queue |-> <<>>]

\* ------------------------------------------------------------------- state
VARIABLES
  db,        \* the committed store: [events, tags]
  tx,        \* per caller: the open transaction of its save
  pc,        \* per caller: where its call stands
  call,      \* per caller: the call in progress [op, arg, pre]; pre is what
             \* held when it began: for save, that the id was stored; for
             \* delete, the ids of the accepted events its filter matches
  held,      \* per caller: pooled connections it holds
  last,      \* the call that returned last: [op, arg, pre, res]
  accepted,  \* history: the events whose save returned Success, until a
             \* delete marks them
  origin,    \* history: for each stored id, the event its row was saved from
  schema,    \* the tables and indexes the database holds, by name
  pool       \* the connection pool: [busy, queue]

vars == <<db, tx, pc, call, held, last, accepted, origin, schema, pool>>

NoCall == [op |-> "none"]

\* The filters callers pass.
CallFilters ==
  {MkFilter(None, None, None, None, None, <<>>, l) : l \in {None} \cup {Some(n) : n \in 0..MaxLimit}}
  \cup {MkFilter(None, None, Some({k}), None, None, <<>>, None) : k \in {1, 2}}
  \cup {MkFilter(None, Some({"B"}), None, Some(200), None, <<>>, None),
        MkFilter(Some({1, 2}), None, None, None, Some(200), <<>>, Some(1)),
        MkFilter(None, None, None, None, None, <<[tag |-> "e", values |-> {"x"}]>>, None)}

\* Rows the store may hold when the program connects (CREATE TABLE IF NOT
\* EXISTS keeps them): a row since marked deleted, and a row whose payload
\* no longer decodes.
LegacyDeleted == EventOf(1, 0)
LegacyCorrupt == EventOf(MaxId, 0)

LegacyRow(e) ==
  LET row == TryFromEvent(e).event IN
  IF e = LegacyDeleted THEN [row EXCEPT !.deleted = TRUE]
  ELSE [row EXCEPT !.payload = SubSeq(@, 1, 2)]

LegacyDb(S) ==
  [events |-> [id \in {e.id : e \in S} |-> LegacyRow(CHOOSE e \in S : e.id = id)],
   tags |-> SeqToBag(IF LegacyCorrupt \in S THEN extract_tags(LegacyCorrupt) ELSE <<>>)
            (+) SeqToBag(IF LegacyDeleted \in S THEN extract_tags(LegacyDeleted) ELSE <<>>)]

Init ==
  \E S \in SUBSET {LegacyDeleted, LegacyCorrupt} :
    /\ db = LegacyDb(S)
    /\ origin = [id \in {e.id : e \in S} |-> CHOOSE e \in S : e.id = id]
    /\ tx = [p \in Procs |-> NoTx]
    /\ pc = [p \in Procs |-> "idle"]
    /\ call = [p \in Procs |-> NoCall]
    /\ held = [p \in Procs |-> 0]
    /\ last = [op |-> "none"]
    /\ accepted = {}
    /\ schema = FullSchema
    /\ pool = IdlePool

\* The call of p returns res: its connection and transaction are dropped.
Return(p, c, res) ==
  /\ last' = [op |-> c.op, arg |-> c.arg, pre |-> c.pre, res |-> res]
  /\ pc' = [pc EXCEPT ![p] = "idle"]
  /\ call' = [call EXCEPT ![p] = NoCall]
  /\ tx' = [tx EXCEPT ![p] = NoTx]
  /\ held' = [held EXCEPT ![p] = 0]

\* ---------------------------------------------------------------- save
\* save_event: the event is mapped to its rows; save takes a connection and
\* opens a transaction (either may fail with a backend error).
SaveEvent(p, e) ==
  /\ pc[p] = "idle"
  /\ LET data == TryFromEvent(e)
         c == [op |-> "save", arg |-> e, pre |-> HasRow(db, e.id)]
     IN \E connected \in BOOLEAN :
          IF connected
          THEN /\ pc' = [pc EXCEPT ![p] = "save_insert"]
               /\ call' = [call EXCEPT ![p] = c]
               /\ tx' = [tx EXCEPT ![p] = [event |-> None, tags |-> <<>>,
                                           todo |-> data.tags]]
               /\ held' = [held EXCEPT ![p] = 1]
               /\ UNCHANGED last
          ELSE Return(p, c, ConnectionFailed)
  /\ UNCHANGED <<db, accepted, origin, schema, pool>>

\* An INSERT that does not wait for an open transaction holding the same id
\* (events without its primary key lock: a mutated store).
InsertBlocked_Never(p, row) == FALSE

\* Another open transaction has inserted the same id: the INSERT waits for it.
InsertBlocked(p, row) ==
  \E q \in Procs \ {p} : IsSome(tx[q].event) /\ Unwrap(tx[q].event).id = row.id

\* INSERT INTO events: a unique violation or a backend fault ends save with a
\* backend error (map_err(DatabaseError::backend)?), rolling back.
SaveInsertEvent(p) ==
  /\ pc[p] = "save_insert"
  /\ LET row == TryFromEvent(call[p].arg).event IN
     /\ ~InsertBlocked(p, row)
     /\ \E fault \in BOOLEAN :
          IF fault \/ UniqueViolation(db, row)
          THEN /\ Return(p, call[p], IF fault THEN ConnectionFailed ELSE UniqueViolated)
               /\ UNCHANGED db
          ELSE LET r == TxExecute(db, tx[p], "events", row)
               IN /\ db' = r.db
                  /\ tx' = [tx EXCEPT ![p] = r.tx]
                  /\ pc' = [pc EXCEPT ![p] = "save_tags"]
                  /\ UNCHANGED <<call, held, last>>
  /\ UNCHANGED <<accepted, origin, schema, pool>>

\* INSERT INTO event_tags, one statement per tag row.
SaveInsertTag(p) ==
  /\ pc[p] = "save_tags"
  /\ tx[p].todo # <<>>
  /\ \E fault \in BOOLEAN :
       IF fault
       THEN Return(p, call[p], ConnectionFailed) /\ UNCHANGED db
       ELSE LET r == TxExecute(db, [tx[p] EXCEPT !.todo = Tail(@)], "event_tags", Head(tx[p].todo))
            IN /\ db' = r.db
               /\ tx' = [tx EXCEPT ![p] = r.tx]
               /\ UNCHANGED <<pc, call, held, last>>
  /\ UNCHANGED <<accepted, origin, schema, pool>>

\* tx.commit(): Ok is Success, any error is Rejected(Duplicate).
SaveCommit(p) ==
  /\ pc[p] = "save_tags"
  /\ tx[p].todo = <<>>
  /\ \E committed \in BOOLEAN :
       IF committed
       THEN /\ db' = TxCommit(db, tx[p])
            /\ accepted' = accepted \cup {call[p].arg}
            /\ origin' = (call[p].arg.id :> call[p].arg) @@ origin
            /\ Return(p, call[p], Ok("Success"))
       ELSE /\ UNCHANGED <<db, accepted, origin>>
            /\ Return(p, call[p], Ok("Rejected(Duplicate)"))
  /\ UNCHANGED <<schema, pool>>

\* ---------------------------------------------------------------- reads
\* check_id: one SELECT on a pooled connection.
CheckId(p, id) ==
  /\ pc[p] = "idle"
  /\ \E fault \in BOOLEAN :
       Return(p, [op |-> "check_id", arg |-> id, pre |-> FALSE],
              IF fault THEN ConnectionFailed ELSE Ok(CheckIdStatus(db, id)))
  /\ UNCHANGED <<db, accepted, origin, schema, pool>>

\* event_by_id
EventById(p, id) ==
  /\ pc[p] = "idle"
  /\ \E fault \in BOOLEAN :
       Return(p, [op |-> "event_by_id", arg |-> id, pre |-> FALSE],
              IF fault THEN ConnectionFailed ELSE GetEvent(db, id))
  /\ UNCHANGED <<db, accepted, origin, schema, pool>>

\* count: get_connection().await? propagates; a failing query_one gives 0.
Count(p, filter) ==
  /\ pc[p] = "idle"
  /\ \E connected \in BOOLEAN :
       Return(p, [op |-> "count", arg |-> filter, pre |-> FALSE],
              IF connected THEN Ok(CountResult(db, filter)) ELSE ConnectionFailed)
  /\ UNCHANGED <<db, accepted, origin, schema, pool>>

\* query
Query(p, filter) ==
  /\ pc[p] = "idle"
  /\ \E res \in QueryResults(db, filter) \cup {ConnectionFailed} :
       Return(p, [op |-> "query", arg |-> filter, pre |-> FALSE], res)
  /\ UNCHANGED <<db, accepted, origin, schema, pool>>

\* A wipe that empties both tables and reports success (a mutated wipe).
Wipe_Truncate(p) ==
  /\ pc[p] = "idle"
  /\ Return(p, [op |-> "wipe", arg |-> 0, pre |-> db], Ok("done"))
  /\ db' = EmptyDb
  /\ UNCHANGED <<accepted, origin, schema, pool>>

\* wipe: Err(DatabaseError::NotSupported), without touching the pool or the
\* store. pre is the store it was called on.
Wipe(p) ==
  /\ pc[p] = "idle"
  /\ Return(p, [op |-> "wipe", arg |-> 0, pre |-> db], NotSupported)
  /\ UNCHANGED <<db, accepted, origin, schema, pool>>

\* ---------------------------------------------------------------- delete
\* What a filter asks for, read off the event (the reference the statements
\* are compared with): every present field constrains the event.
FilterMatches(filter, e) ==
  /\ IsSome(filter.ids) => e.id \in Unwrap(filter.ids)
  /\ IsSome(filter.authors) => e.pubkey \in Unwrap(filter.authors)
  /\ IsSome(filter.kinds) => e.kind \in Unwrap(filter.kinds)
  /\ IsSome(filter.since) => e.created_at >= Unwrap(filter.since)
  /\ IsSome(filter.until) => e.created_at <= Unwrap(filter.until)
  /\ \A k \in 1..Len(filter.generic_tags) :
       \E n \in 1..Len(e.tags) :
         /\ e.tags[n].kind = filter.generic_tags[k].tag
         /\ IsSome(e.tags[n].content)
         /\ Unwrap(e.tags[n].content) \in filter.generic_tags[k].values

\* The stored, not deleted ids whose event matches the filter.
MatchingIds(dbv, orig, filter) ==
  {id \in DOMAIN dbv.events : ~dbv.events[id].deleted /\ FilterMatches(filter, orig[id])}

\* delete, in its two statements, each on a connection of its own: the SELECT
\* of the ids (from idle), then the UPDATE (from delete_update). A failure of
\* either statement ends delete with a backend error.
Delete(p) ==
  /\ IF pc[p] = "idle"
     THEN \E filter \in CallFilters :
            LET c == [op |-> "delete", arg |-> filter,
                      pre |-> {e.id : e \in {a \in accepted : FilterMatches(filter, a)}}]
            IN \E r \in DeleteSelect(db, filter) \cup {ConnectionFailed} :
                 IF r.ok
                 THEN /\ pc' = [pc EXCEPT ![p] = "delete_update"]
                      /\ call' = [call EXCEPT ![p] = c @@ [ids |-> r.v]]
                      /\ UNCHANGED <<db, tx, held, last, accepted>>
                 ELSE Return(p, c, r) /\ UNCHANGED <<db, accepted>>
     ELSE /\ pc[p] = "delete_update"
          /\ \E fault \in BOOLEAN :
               IF fault \/ ~PgAcceptsUpdate(UpdateQuery, call[p].ids)
               THEN /\ Return(p, call[p], IF fault THEN ConnectionFailed ELSE StatementRejected)
                    /\ UNCHANGED <<db, accepted>>
               ELSE LET ids == {call[p].ids[k] : k \in 1..Len(call[p].ids)}
                    IN /\ db' = PgUpdateDeleted(db, ids)
                       /\ accepted' = {e \in accepted : e.id \notin ids}
                       /\ Return(p, call[p], Ok("done"))
  /\ UNCHANGED <<origin, schema, pool>>

\* One step of caller p.
Step(p) ==
  \/ \E e \in Events : SaveEvent(p, e)
  \/ SaveInsertEvent(p)
  \/ SaveInsertTag(p)
  \/ SaveCommit(p)
  \/ \E id \in Ids : CheckId(p, id)
  \/ \E id \in Ids : EventById(p, id)
  \/ \E filter \in CallFilters : Count(p, filter)
  \/ \E filter \in CallFilters : Query(p, filter)
  \/ Delete(p)
  \/ Wipe(p)

Next == \E p \in Procs : Step(p)

\* Concurrent callers.
Spec == Init /\ [][Next]_vars

\* One caller making its calls one after the other: the stores it reaches
\* are the stores concurrent callers reach (commits are serial). The
\* properties of a single statement's result are checked under it.
NextOneCaller == Step(1)

SpecOneCaller == Init /\ [][NextOneCaller]_vars

\* ------------------------------------------------------ the compiler alone
\* filter_to_sql_params on its own: the base queries of the three handlers
\* and the filters with every combination of fields present or absent, no,
\* one or two tag constraints (in key order, as the map iterates), and no
\* limit or a limit of 0..MaxLimit.
BaseQueries == {CountBaseQuery, QueryBaseQuery, DeleteBaseQuery}

TagConstraintLists ==
  {<<>>,
   <<[tag |-> "e", values |-> {"x"}]>>,
   <<[tag |-> "e", values |-> {"x"}], [tag |-> "p", values |-> {"y", "z"}]>>}

CompileFilters ==
  {MkFilter(ids, authors, kinds, since, until, gts, limit) :
     ids \in {None, Some({1, 2})},
     authors \in {None, Some({"A", "B"})},
     kinds \in {None, Some({1})},
     since \in {None, Some(100)},
     until \in {None, Some(200)},
     gts \in TagConstraintLists,
     limit \in {None} \cup {Some(n) : n \in 0..MaxLimit}}

\* The caller holds a base query and a filter to compile, on an empty store.
InitCompile ==
  \E base_query \in BaseQueries, filter \in CompileFilters :
    /\ db = EmptyDb
    /\ origin = <<>>
    /\ tx = [p \in Procs |-> NoTx]
    /\ pc = [p \in Procs |-> "idle"]
    /\ call = [p \in Procs |-> IF p = 1
                                THEN [op |-> "compile", arg |-> filter, pre |-> base_query]
                                ELSE NoCall]
    /\ held = [p \in Procs |-> 0]
    /\ last = [op |-> "none"]
    /\ accepted = {}
    /\ schema = FullSchema
    /\ pool = IdlePool

\* The call of filter_to_sql_params: last keeps its arguments and its result.
Compile(p) ==
  /\ call[p].op = "compile"
  /\ last' = [op |-> "compile", arg |-> call[p].arg, pre |-> call[p].pre,
              res |-> filter_to_sql_params(call[p].pre, call[p].arg)]
  /\ call' = [call EXCEPT ![p] = NoCall]
  /\ UNCHANGED <<db, tx, pc, held, accepted, origin, schema, pool>>

NextCompile == \E p \in Procs : Compile(p)

SpecCompile == InitCompile /\ [][NextCompile]_vars

\* ------------------------------------------------------------- the startup
\* A database holds an index only with its table, and event_tags only with
\* events.
ConsistentSchema(sch) ==
  \A k \in 1..Len(Migrations) :
    (Migrations[k].name \in sch /\ IsSome(Migrations[k].needs))
      => Unwrap(Migrations[k].needs) \in sch

\* The databases NostrPostgres::new may be pointed at: a fresh one, one an
\* earlier startup has migrated in part or in full, with the rows it holds.
InitStartup ==
  \E sch \in SUBSET FullSchema, S \in SUBSET {LegacyDeleted, LegacyCorrupt} :
    /\ ConsistentSchema(sch)
    /\ S # {} => "events" \in sch
    /\ LegacyDb(S).tags # EmptyBag => "event_tags" \in sch
    /\ db = LegacyDb(S)
    /\ origin = [id \in {e.id : e \in S} |-> CHOOSE e \in S : e.id = id]
    /\ tx = [p \in Procs |-> NoTx]
    /\ pc = [p \in Procs |-> "idle"]
    /\ call = [p \in Procs |-> NoCall]
    /\ held = [p \in Procs |-> 0]
    /\ last = [op |-> "none"]
    /\ accepted = {}
    /\ schema = sch
    /\ pool = IdlePool

PoolNotBuilt == Err("backend: pool not built")

\* NostrPostgres::new: the pool is built (the connection string may not
\* parse) and run_migrations begins with its first statement. pre is the
\* database it was pointed at.
New(p) ==
  /\ pc[p] = "idle"
  /\ LET c == [op |-> "new", arg |-> 1, pre |-> [schema |-> schema, db |-> db]]
     IN \E built \in BOOLEAN :
          IF built
          THEN /\ pc' = [pc EXCEPT ![p] = "migrate"]
               /\ call' = [call EXCEPT ![p] = c]
               /\ UNCHANGED <<tx, held, last>>
          ELSE Return(p, c, PoolNotBuilt)
  /\ UNCHANGED <<db, accepted, origin, schema, pool>>

\* run_query: the next statement of run_migrations, on a pooled connection
\* of its own. A failure ends new with the backend error ("?"); after the
\* last statement new returns Ok.
RunQuery(p) ==
  /\ pc[p] = "migrate"
  /\ \E fault \in BOOLEAN :
       LET r == PgCreateIfNotExists(schema, db, Migrations[call[p].arg]) IN
       IF fault \/ ~r.ok
       THEN /\ Return(p, call[p], IF fault THEN ConnectionFailed ELSE StatementRejected)
            /\ UNCHANGED <<db, schema>>
       ELSE /\ schema' = r.schema
            /\ db' = r.db
            /\ IF call[p].arg = Len(Migrations)
               THEN Return(p, call[p], Ok("done"))
               ELSE /\ call' = [call EXCEPT ![p].arg = @ + 1]
                    /\ UNCHANGED <<tx, pc, held, last>>
  /\ UNCHANGED <<accepted, origin, pool>>

\* One instance starting, any number of times.
NextStartup == New(1) \/ RunQuery(1)

SpecStartup == InitStartup /\ [][NextStartup]_vars

\* ----------------------------------------------------------- the pool alone
\* The operations by their use of the pool: how many times each one calls
\* pool.get, one call after the other (new: once per statement of
\* run_migrations; delete: for its select and for its update; wipe: never).
Acquisitions(op) ==
  CASE op = "new" -> Len(Migrations)
    [] op = "delete" -> 2
    [] op \in {"save", "check_id", "event_by_id", "count", "query"} -> 1
    [] op = "wipe" -> 0

PoolOps == {"new", "save", "check_id", "event_by_id", "count", "query", "delete"}

\* A connection bound to a variable that lives until the operation returns
\* is still held at its next pool.get (a mutated delete).
KeptForNext_Bound(op) == 1

\* The connections an operation still holds when it goes on to its next
\* pool.get: none. In run_query and in delete the connection is a temporary
\* of the statement that uses it, dropped at the end of that statement.
KeptForNext(op) == 0

\* Connections in use: the pool hands out a connection only with a permit
\* of its semaphore, of which there are max_size.
InUse == pool.busy + held[1] + held[2]

OthersQueued == Cardinality({k \in 1..Len(pool.queue) : pool.queue[k] = 0})

\* The operation of p is over: its connection is dropped with it.
PoolDone(p) ==
  /\ pc' = [pc EXCEPT ![p] = "idle"]
  /\ call' = [call EXCEPT ![p] = NoCall]
  /\ held' = [held EXCEPT ![p] = 0]

\* An operation begins and calls pool.get: it waits in the queue of the
\* semaphore. arg is the number of pool.get calls it still has to make.
PoolCall(p, op) ==
  /\ pc[p] = "idle"
  /\ pc' = [pc EXCEPT ![p] = "pool_wait"]
  /\ call' = [call EXCEPT ![p] = [op |-> op, arg |-> Acquisitions(op), pre |-> FALSE]]
  /\ pool' = [pool EXCEPT !.queue = Append(@, p)]
  /\ UNCHANGED <<db, tx, held, last, accepted, origin, schema>>

\* pool.get returns: the first waiter gets a permit when fewer than max_size
\* connections are in use, and with it a connection; if none can be made
\* (the database refuses) the permit goes back and the operation ends with
\* the backend error.
PoolGet(p) ==
  /\ pc[p] = "pool_wait"
  /\ pool.queue # <<>> /\ Head(pool.queue) = p
  /\ InUse < PoolMaxSize
  /\ pool' = [pool EXCEPT !.queue = Tail(@)]
  /\ \E connected \in BOOLEAN :
       IF connected
       THEN /\ held' = [held EXCEPT ![p] = @ + 1]
            /\ pc' = [pc EXCEPT ![p] = "pool_hold"]
            /\ UNCHANGED call
       ELSE PoolDone(p)
  /\ UNCHANGED <<db, tx, last, accepted, origin, schema>>

\* The statement on the connection is done: the connection is dropped. The
\* operation returns if the statement failed or was its last one, else it
\* calls pool.get again.
PoolDrop(p) ==
  /\ pc[p] = "pool_hold"
  /\ \E failed \in BOOLEAN :
       IF failed \/ call[p].arg = 1
       THEN PoolDone(p) /\ UNCHANGED pool
       ELSE /\ held' = [held EXCEPT ![p] = KeptForNext(call[p].op)]
            /\ call' = [call EXCEPT ![p].arg = @ - 1]
            /\ pc' = [pc EXCEPT ![p] = "pool_wait"]
            /\ pool' = [pool EXCEPT !.queue = Append(@, p)]
  /\ UNCHANGED <<db, tx, last, accepted, origin, schema>>

\* Another caller calls pool.get.
OtherCall ==
  /\ pool.busy + OthersQueued < MaxOthers
  /\ pool' = [pool EXCEPT !.queue = Append(@, 0)]
  /\ UNCHANGED <<db, tx, pc, call, held, last, accepted, origin, schema>>

\* Another caller, first in the queue, gets its connection, or none.
OtherGet ==
  /\ pool.queue # <<>> /\ Head(pool.queue) = 0
  /\ InUse < PoolMaxSize
  /\ \E connected \in BOOLEAN :
       pool' = [busy |-> pool.busy + (IF connected THEN 1 ELSE 0), queue |-> Tail(pool.queue)]
  /\ UNCHANGED <<db, tx, pc, call, held, last, accepted, origin, schema>>

\* Another caller drops its connection.
OtherDrop ==
  /\ pool.busy > 0
  /\ pool' = [pool EXCEPT !.busy = @ - 1]
  /\ UNCHANGED <<db, tx, pc, call, held, last, accepted, origin, schema>>

NextPool ==
  \/ \E op \in PoolOps : PoolCall(1, op)
  \/ PoolGet(1)
  \/ PoolDrop(1)
  \/ OtherCall
  \/ OtherGet
  \/ OtherDrop

\* The semaphore serves its waiters in order as permits come free, and a
\* statement on a connection ends (Postgres answers), so that a connection
\* in use is dropped in the end.
SpecPool ==
  /\ Init
  /\ [][NextPool]_vars
  /\ WF_vars(PoolGet(1))
  /\ WF_vars(OtherGet)
  /\ WF_vars(OtherDrop)

\* ========================================================= the properties
\* The limit a call works under: the filter's own, else the handler's default.
EffectiveLimit(filter, default_limit) ==
  IF IsSome(filter.limit) THEN Unwrap(filter.limit) ELSE default_limit

\* The filters without tag constraints.
PlainFilters == {f \in CallFilters : f.generic_tags = <<>>}

\* The elements of a sequence.
Range(s) == {s[k] : k \in 1..Len(s)}

\* -------------------------------------------------------------------- C1
\* C1: every event whose save returned Success, and that no delete has
\* marked since, has status Saved and is returned by event_by_id equal to
\* the event that was saved.
C1_SavedIsReadable ==
  \A e \in accepted :
    /\ CheckIdStatus(db, e.id) = "Saved"
    /\ GetEvent(db, e.id) = Ok(Some(e))

\* A check_id of an accepted event's id has returned Saved.
C1_Witness ==
  /\ last.op = "check_id"
  /\ \E e \in accepted : e.id = last.arg /\ e.tags # <<>>
  /\ last.res = Ok("Saved")

\* -------------------------------------------------------------------- C2
\* C2 (as claimed): a save of an id that is already stored, Saved or
\* Deleted, that meets no connection failure returns Ok(Rejected(Duplicate)).
C2_DuplicateIsRejected ==
  (last.op = "save" /\ last.pre /\ last.res # ConnectionFailed)
    => last.res = Ok("Rejected(Duplicate)")

\* -------------------------------------------------------------------- C3
\* C3 (as claimed): once a delete has returned without a connection failure,
\* every event that was saved, not deleted and matched by its filter when it
\* was called (no more of them than its limit) has status Deleted and is
\* absent for event_by_id.
C3_DeleteMarksMatching ==
  (/\ last.op = "delete"
   /\ last.res # ConnectionFailed
   /\ Cardinality(last.pre) <= EffectiveLimit(last.arg, DefaultDeleteLimit))
    => \A id \in last.pre : CheckIdStatus(db, id) = "Deleted" /\ GetEvent(db, id) = Ok(None)

\* -------------------------------------------------------------------- C4
\* C4: in every reachable store and for every filter, no event that query
\* returns has a stored row with deleted = TRUE.
C4_QueryHidesDeleted ==
  \A f \in CallFilters :
    \A r \in QueryResults(db, f) :
      r.ok => \A e \in Range(r.v) : HasRow(db, e.id) /\ ~db.events[e.id].deleted

\* A query has returned while a deleted row that its filter matches is stored.
C4_Witness ==
  /\ last.op = "query"
  /\ last.res.ok
  /\ last.res.v # <<>>
  /\ \E id \in DOMAIN db.events :
       db.events[id].deleted /\ FilterMatches(last.arg, origin[id])

\* -------------------------------------------------------------------- C5
\* C5: in every step, an id whose status is Deleted stays Deleted, and an id
\* whose status is Saved does not become NotExistent.
C5_StatusMovesForward ==
  [][\A id \in Ids :
       /\ CheckIdStatus(db, id) = "Deleted" => CheckIdStatus(db', id) = "Deleted"
       /\ CheckIdStatus(db, id) = "Saved" => CheckIdStatus(db', id) # "NotExistent"]_vars

\* A save of an id whose row is deleted has returned, and the id is still
\* Deleted.
C5_Witness ==
  /\ last.op = "save"
  /\ last.pre
  /\ last.res = UniqueViolated
  /\ CheckIdStatus(db, last.arg.id) = "Deleted"

\* -------------------------------------------------------------------- C6
\* The tag rows of an id, with their numbers of copies.
TagBagOf(dbv, id) == [t \in TagRowsOf(dbv, id) |-> CopiesIn(t, dbv.tags)]

\* C6: at every moment the committed store (what any other connection reads)
\* holds, for each id, either the event row with exactly the tag rows of the
\* event it was saved from, or no row at all; and the rows a save has
\* inserted are not in it before its commit.
C6_SaveIsAtomic ==
  /\ \A p \in Procs :
       (pc[p] = "save_tags" /\ IsSome(tx[p].event)) => ~HasRow(db, call[p].arg.id)
  /\ \A id \in Ids :
       IF HasRow(db, id)
       THEN /\ id \in DOMAIN origin
            /\ db.events[id].id = id
            /\ TagBagOf(db, id) = SeqToBag(extract_tags(origin[id]))
       ELSE TagRowsOf(db, id) = {}

\* A save is inside its transaction, its event row and one of its two tag
\* rows inserted, and the committed store shows none of them.
C6_Witness ==
  \E p \in Procs :
    /\ pc[p] = "save_tags"
    /\ IsSome(tx[p].event)
    /\ Len(tx[p].tags) = 1
    /\ Len(tx[p].todo) = 1
    /\ ~HasRow(db, call[p].arg.id)
    /\ TagRowsOf(db, call[p].arg.id) = {}

\* -------------------------------------------------------------------- C7
\* C7 (as claimed), on a store that holds the events of accepted saves only:
\* for every filter, count returns the number of distinct stored, not
\* deleted events the filter matches, each counted once.
C7_CountIsDistinctMatches ==
  DOMAIN db.events = {e.id : e \in accepted} =>
    \A f \in CallFilters :
      CountResult(db, f) = Cardinality(MatchingIds(db, origin, f))

\* -------------------------------------------------------------------- C8
\* C8 (as claimed): no count call returns an error.
C8_CountNeverFails == last.op = "count" => last.res.ok

\* -------------------------------------------------------------------- C9
\* The stored, not deleted rows a filter matches, by their columns.
MatchingRows(dbv, filter) ==
  {dbv.events[id] : id \in {i \in DOMAIN dbv.events :
      /\ ~dbv.events[i].deleted
      /\ FilterMatches([filter EXCEPT !.generic_tags = <<>>], dbv.events[i] @@ [tags |-> <<>>])}}

\* K holds n rows of M with the greatest created_at.
IsTop(K, M, n) ==
  /\ K \subseteq M
  /\ Cardinality(K) = Min(n, Cardinality(M))
  /\ \A a \in K : \A b \in M \ K : a.created_at >= b.created_at

\* A sequence of events without repeats, created_at descending.
IsDescending(evs) ==
  \A a, b \in 1..Len(evs) : a < b => (evs[a] # evs[b] /\ evs[a].created_at >= evs[b].created_at)

\* The events the rows of K decode to.
Decoded(K) == {Decode(row.payload).event : row \in {x \in K : Decode(x.payload).ok}}

\* C9 (as claimed): query returns exactly the stored, not deleted events
\* (rows that decode) matching the filter, at most limit of them, those with
\* the greatest created_at, ordered by created_at descending.
C9_QueryIsExact ==
  \A f \in PlainFilters :
    \A r \in QueryResults(db, f) :
      /\ r.ok
      /\ IsDescending(r.v)
      /\ \E K \in SUBSET {row \in MatchingRows(db, f) : Decode(row.payload).ok} :
           /\ IsTop(K, {row \in MatchingRows(db, f) : Decode(row.payload).ok},
                    EffectiveLimit(f, DefaultQueryLimit))
           /\ Range(r.v) = Decoded(K)

\* C9 (amended): query takes the stored, not deleted rows matching the
\* filter, keeps at most limit of them, those with the greatest created_at,
\* and returns the events of the kept rows whose payload decodes, ordered by
\* created_at descending.
C9_QueryIsExactOfRows ==
  \A f \in PlainFilters :
    \A r \in QueryResults(db, f) :
      /\ r.ok
      /\ IsDescending(r.v)
      /\ \E K \in SUBSET MatchingRows(db, f) :
           /\ IsTop(K, MatchingRows(db, f), EffectiveLimit(f, DefaultQueryLimit))
           /\ Range(r.v) = Decoded(K)

\* A query with limit 1 has returned one event while its filter matches more.
C9_Witness ==
  /\ last.op = "query"
  /\ last.arg.generic_tags = <<>>
  /\ last.arg.limit = Some(1)
  /\ last.res.ok
  /\ Len(last.res.v) = 1
  /\ Cardinality(MatchingRows(db, last.arg)) > 1

\* ------------------------------------------------------------------- C10
\* The value bound to the LIMIT placeholder of a compiled statement.
LimitParam(c) == Unwrap(c.params[Unwrap(c.sql.limit)])

\* C10: the statement of query is limited by the filter's limit, or by 10000
\* when the filter has none, and the one of delete by the filter's limit, or
\* by 999; query returns no more events, and delete selects no more ids,
\* than that.
C10_DefaultCaps ==
  \A f \in CallFilters :
    /\ IsSome(QueryStatement(f).sql.limit)
    /\ LimitParam(QueryStatement(f)) = (IF IsSome(f.limit) THEN Unwrap(f.limit) ELSE 10000)
    /\ \A r \in QueryResults(db, f) : r.ok => Len(r.v) <= LimitParam(QueryStatement(f))
    /\ QueryResults(db, f) = QueryResults(db, [f EXCEPT !.limit = Some(EffectiveLimit(f, 10000))])
    /\ IsSome(DeleteStatement(f).sql.limit)
    /\ LimitParam(DeleteStatement(f)) = (IF IsSome(f.limit) THEN Unwrap(f.limit) ELSE 999)
    /\ \A r \in DeleteSelect(db, f) : r.ok => Len(r.v) <= LimitParam(DeleteStatement(f))
    /\ \A p \in Procs :
         pc[p] = "delete_update" =>
           Len(call[p].ids) <= EffectiveLimit(call[p].arg, 999)

\* A query without a limit has returned more events than any explicit limit
\* of the callers' filters allows.
C10_Witness ==
  /\ last.op = "query"
  /\ ~IsSome(last.arg.limit)
  /\ last.res.ok
  /\ Len(last.res.v) > MaxLimit

\* ------------------------------------------------------------------- C11
\* C11: whatever the store holds, a wipe returns the not-supported failure
\* and the event rows and tag rows are those it was called on.
C11_WipeIsNotSupported ==
  last.op = "wipe" => (last.res = NotSupported /\ db = last.pre)

\* A wipe has returned on a store that holds a saved row, a deleted row and
\* tag rows.
C11_Witness ==
  /\ last.op = "wipe"
  /\ \E id \in DOMAIN db.events : db.events[id].deleted
  /\ \E id \in DOMAIN db.events : ~db.events[id].deleted
  /\ db.tags # EmptyBag

\* ------------------------------------------------------------------- C12
NonZero(n) == n # 0

\* The placeholders of a statement's text, in their order of appearance: the
\* ones of the WHERE clauses, then the one of LIMIT.
Placeholders(sql) ==
  SelectSeq([k \in 1..Len(sql.where) |-> sql.where[k].ph], NonZero)
  \o (IF IsSome(sql.limit) THEN <<Unwrap(sql.limit)>> ELSE <<>>)

\* The value of the filter that the k-th WHERE clause compares its column
\* with: the field of that column, and for the n-th tag clause the name or
\* the values of the n-th tag constraint.
ClauseValue(filter, where, k) ==
  LET c == where[k]
      n == Cardinality({j \in 1..k : where[j].col = c.col})
  IN CASE c.col = "events.id" -> Unwrap(filter.ids)
       [] c.col = "events.pubkey" -> Unwrap(filter.authors)
       [] c.col = "events.kind" -> Unwrap(filter.kinds)
       [] c.col = "events.created_at" /\ c.op = ">=" -> Unwrap(filter.since)
       [] c.col = "events.created_at" /\ c.op = "<=" -> Unwrap(filter.until)
       [] c.col = "event_tags.tag" -> filter.generic_tags[n].tag
       [] c.col = "event_tags.tag_value" -> filter.generic_tags[n].values

\* C12: the placeholders of the compiled text are $1..$n in this order, each
\* once, n being the number of parameters; the i-th parameter is the value
\* of the clause that holds $i; and the limit, when the filter has one, is
\* the last parameter.
C12_PlaceholdersMatchParams ==
  last.op = "compile" =>
    LET sql == last.res.sql
        params == last.res.params
        phs == Placeholders(sql)
    IN /\ Len(phs) = Len(params)
       /\ \A i \in 1..Len(phs) : phs[i] = i
       /\ \A k \in 1..Len(sql.where) :
            sql.where[k].ph # 0 =>
              params[sql.where[k].ph] = <<ClauseValue(last.arg, sql.where, k)>>
       /\ IsSome(last.arg.limit) =>
            /\ IsSome(sql.limit)
            /\ Unwrap(sql.limit) = Len(params)
            /\ params[Len(params)] = <<Unwrap(last.arg.limit)>>

\* The filter authors = {A, B}, since = 100 has been compiled into exactly
\* two parameters, the author array and then 100, held by $1 and $2.
C12_Witness ==
  /\ last.op = "compile"
  /\ last.arg = MkFilter(None, Some({"A", "B"}), None, Some(100), None, <<>>, None)
  /\ last.res.params = << <<{"A", "B"}>>, <<100>> >>
  /\ Placeholders(last.res.sql) = <<1, 2>>

\* ------------------------------------------------------------------- C13
\* C13: a filter with no field set compiles to the base query unchanged and
\* no parameter; a filter with only a limit compiles to the base query with
\* ORDER BY events.created_at DESC and LIMIT $1 appended and one parameter,
\* the limit.
C13_FastPathAndLimitOnly ==
  last.op = "compile" =>
    /\ last.arg = EmptyFilter =>
         last.res = [sql |-> last.pre, params |-> <<>>]
    /\ (IsSome(last.arg.limit) /\ [last.arg EXCEPT !.limit = None] = EmptyFilter) =>
         /\ last.res.sql = [last.pre EXCEPT !.order_by = <<"events.created_at DESC">>,
                                             !.limit = Some(1)]
         /\ last.res.params = << <<Unwrap(last.arg.limit)>> >>

\* A filter with only a limit has been compiled on the base query of count.
C13_Witness ==
  /\ last.op = "compile"
  /\ last.pre = CountBaseQuery
  /\ last.arg = [EmptyFilter EXCEPT !.limit = Some(MaxLimit)]
  /\ Len(last.res.params) = 1

\* ------------------------------------------------------------------- C14
\* C14: a startup that meets no backend fault succeeds on any database and
\* leaves every table and index it found, adding the missing ones, and every
\* event row and tag row; on a database that holds the whole schema it
\* changes nothing, so that a second startup leaves what the first one left.
C14_EnsureSchemaIsIdempotent ==
  last.op = "new" =>
    /\ db = last.pre.db
    /\ last.pre.schema \subseteq schema
    /\ last.res \notin {ConnectionFailed, PoolNotBuilt} =>
         (last.res = Ok("done") /\ schema = FullSchema)
    /\ last.pre.schema = FullSchema => schema = last.pre.schema

\* A startup has succeeded on a database that held the whole schema, event
\* rows and tag rows.
C14_Witness ==
  /\ last.op = "new"
  /\ last.res = Ok("done")
  /\ last.pre.schema = FullSchema
  /\ DOMAIN db.events # {}
  /\ db.tags # EmptyBag

\* ------------------------------------------------------------------- C15
\* The filters with two tag constraints, on the tag names e and p.
TwoTagFilters ==
  {MkFilter(None, None, None, None, None,
            <<[tag |-> "e", values |-> {"x"}], [tag |-> "p", values |-> vs]>>, None) :
     vs \in {{"y"}, {"y", "z"}}}

\* C15 (as claimed), on a store that holds the events of accepted saves
\* only: for a filter with two tag constraints, query returns exactly the
\* stored, not deleted events that carry, for each constraint, a tag with
\* its name and one of its values.
C15_TagConstraintsAreAnded ==
  DOMAIN db.events = {e.id : e \in accepted} =>
    \A f \in TwoTagFilters :
      \A r \in QueryResults(db, f) :
        /\ r.ok
        /\ Range(r.v) = {origin[id] : id \in MatchingIds(db, origin, f)}

\* ------------------------------------------------------------------- C16
\* The ids an UPDATE of the given ids newly marks.
NewlyMarked(dbv, ids) ==
  {id \in DOMAIN dbv.events :
     ~dbv.events[id].deleted /\ PgUpdateDeleted(dbv, ids).events[id].deleted}

\* C16 (as claimed): on every store and for every filter, the select step
\* of delete returns ids, the update delete then sends for them is one
\* statement that Postgres accepts, and it marks exactly the selected ids.
C16_DeleteMarksItsSelection ==
  \A f \in CallFilters :
    \A r \in DeleteSelect(db, f) :
      /\ r.ok
      /\ PgAcceptsUpdate(UpdateQuery, r.v)
      /\ NewlyMarked(db, Range(r.v)) = Range(r.v)

\* ------------------------------------------------------------------- C17
\* The columns of a row that no operation may change.
Immutable(row) ==
  [id |-> row.id, pubkey |-> row.pubkey, created_at |-> row.created_at,
   kind |-> row.kind, payload |-> row.payload]

\* C17: in every step, every stored event row stays stored with the same
\* id, pubkey, created_at, kind and payload, a row that is deleted stays
\* deleted, and every stored tag row stays, in as many copies.
C17_OnlyDeletedChanges ==
  [][/\ \A id \in DOMAIN db.events :
          /\ id \in DOMAIN db'.events
          /\ Immutable(db'.events[id]) = Immutable(db.events[id])
          /\ db.events[id].deleted => db'.events[id].deleted
     /\ \A t \in BagToSet(db.tags) : CopiesIn(t, db'.tags) >= CopiesIn(t, db.tags)]_vars

\* A save of another event with the id of a saved event has returned, and
\* the row still holds the payload of the first one and is not deleted,
\* while rows with tag rows are stored.
C17_Witness ==
  /\ last.op = "save"
  /\ last.arg = EventOf(1, 1)
  /\ HasRow(db, 1)
  /\ db.events[1].payload = Encode(EventOf(1, 0))
  /\ ~db.events[1].deleted
  /\ db.tags # EmptyBag

\* ------------------------------------------------------------------- C18
\* The stored ids whose payload does not decode.
Undecodable(dbv) == {id \in DOMAIN dbv.events : ~Decode(dbv.events[id].payload).ok}

\* The store without the rows (and their tag rows) of the given ids.
Without(dbv, ids) ==
  [events |-> [id \in DOMAIN dbv.events \ ids |-> dbv.events[id]],
   tags |-> [t \in {x \in BagToSet(dbv.tags) : x.event_id \notin ids} |-> CopiesIn(t, dbv.tags)]]

\* C18 (as claimed): for every filter, query succeeds and returns what it
\* would return if the rows whose payload does not decode were not stored:
\* it omits them and still returns every other matching event.
C18_CorruptRowIsSkipped ==
  \A f \in CallFilters :
    /\ \A r \in QueryResults(db, f) : r.ok
    /\ QueryResults(db, f) = QueryResults(Without(db, Undecodable(db)), f)

\* C18 (amended): for every filter, query succeeds and returns no event of
\* a row whose payload does not decode; it returns every other matching,
\* not deleted event when the matching rows, the undecodable ones included,
\* are no more than the limit.
C18_CorruptRowIsSkippedWithinLimit ==
  \A f \in CallFilters :
    \A r \in QueryResults(db, f) :
      LET M == MatchingIds(db, origin, f)
          good == M \ Undecodable(db)
      IN /\ r.ok
         /\ {e.id : e \in Range(r.v)} \subseteq good
         /\ Cardinality(M) <= EffectiveLimit(f, DefaultQueryLimit) =>
              Range(r.v) = {origin[id] : id \in good}

\* A query has returned events while a row that its filter matches and
\* whose payload does not decode is stored.
C18_Witness ==
  /\ last.op = "query"
  /\ last.res.ok
  /\ last.res.v # <<>>
  /\ MatchingIds(db, origin, last.arg) \cap Undecodable(db) # {}

\* ------------------------------------------------------------------- C19
\* C19: in every step in which a save returns Success, no row with its id
\* was stored before (and a stored row is never removed, so that no two
\* saves of one id return Success), no other save holds a row with that id
\* in an open transaction, and the store then holds its event row with
\* exactly its tag rows; and no step changes the tag rows of a stored id.
\* The events table holds one row per id by its primary key.
C19_OneSaveWins ==
  [][/\ \A p \in Procs :
          (pc[p] = "save_tags" /\ pc'[p] = "idle" /\ last'.res = Ok("Success")) =>
            LET e == call[p].arg IN
            /\ ~HasRow(db, e.id)
            /\ \A q \in Procs \ {p} :
                 ~(IsSome(tx[q].event) /\ Unwrap(tx[q].event).id = e.id)
            /\ db'.events[e.id] = TryFromEvent(e).event
            /\ TagBagOf(db', e.id) = SeqToBag(extract_tags(e))
     /\ \A id \in DOMAIN db.events :
          /\ HasRow(db', id)
          /\ TagBagOf(db', id) = TagBagOf(db, id)]_vars

\* A save that began when its id was not stored has lost against a save of
\* another event with the same id: it returned the unique violation, and
\* the store holds the row and exactly the tag rows of the other event.
C19_Witness ==
  /\ last.op = "save"
  /\ ~last.pre
  /\ last.res = UniqueViolated
  /\ HasRow(db, last.arg.id)
  /\ origin[last.arg.id] # last.arg
  /\ db.events[last.arg.id] = TryFromEvent(origin[last.arg.id]).event
  /\ TagBagOf(db, last.arg.id) = SeqToBag(extract_tags(origin[last.arg.id]))

\* ------------------------------------------------------------------- C20
\* C20: a caller between two operations holds no connection, a caller
\* waiting in pool.get holds none, no more than 16 connections are in use,
\* and the wait of every caller in pool.get ends: with a connection, or with
\* the backend error of a database that gives none.
C20_PoolIsBoundedAndLive ==
  /\ [](\A p \in Procs :
          /\ pc[p] = "idle" => held[p] = 0
          /\ pc[p] = "pool_wait" => held[p] = 0
          /\ held[p] <= 1)
  /\ [](InUse <= 16)
  /\ \A p \in Procs : (pc[p] = "pool_wait") ~> (pc[p] # "pool_wait")

\* All 16 connections are in use by other callers, and a delete that is
\* through with its select waits for the connection of its update, behind
\* another caller.
C20_Witness ==
  /\ pool.busy = 16
  /\ pc[1] = "pool_wait"
  /\ call[1].op = "delete"
  /\ call[1].arg = 1
  /\ Len(pool.queue) > 1
  /\ Head(pool.queue) = 0

====
